---------------------------- MODULE Spec2Model ----------------------------
(***************************************************************************)
(* VerticaPy: the vDataColumn transformation chain (_transf) and the type  *)
(* resolver vDCTyping.astype of core/vdataframe/_typing.py.                *)
(*                                                                         *)
(* Strings whose characters the code inspects (type labels, the longest    *)
(* string sample) are sequences of one-character strings so that the       *)
(* prefix tests, slices and counts of the source are computed, not         *)
(* assumed.  An SQL expression template is a record                        *)
(*   [fn, params, cast]   ~   FN({} USING PARAMETERS p1='v1' ...)::cast    *)
(* with fn = "" for a plain cast {}::cast; whitespace clean-up of the SQL  *)
(* text (clean_query) has nothing to act on in this representation.        *)
(***************************************************************************)
EXTENDS Integers, Sequences, FiniteSets, TLC

VARIABLES transf, history, version, last, dsn

vars == <<transf, history, version, last, dsn>>

(***************************************************************************)
(* Bounds of the model.                                                    *)
(***************************************************************************)
\* Successful casts (chain entries appended) over the whole table.
MaxAppends == 2

(***************************************************************************)
(* Character sequences.                                                    *)
(***************************************************************************)
s_array == <<"a", "r", "r", "a", "y">>
s_vmap == <<"v", "m", "a", "p">>
s_vmap_open == <<"v", "m", "a", "p", "(">>
s_vmap_hdr == <<"v", "m", "a", "p", "(", "a", ",", "b", ")">>
s_json == <<"j", "s", "o", "n">>
s_varchar == <<"v", "a", "r", "c", "h", "a", "r">>
s_char == <<"c", "h", "a", "r">>
s_char9 == <<"c", "h", "a", "r", "(", "9", ")">>
s_int == <<"i", "n", "t">>
s_INT_sp == <<"I", "N", "T", " ">>
s_bool == <<"b", "o", "o", "l">>
s_boolean == <<"b", "o", "o", "l", "e", "a", "n">>
s_Boolean == <<"B", "o", "o", "l", "e", "a", "n">>
s_float == <<"f", "l", "o", "a", "t">>
s_numeric == <<"n", "u", "m", "e", "r", "i", "c">>
s_double == <<"d", "o", "u", "b", "l", "e">>
s_date == <<"d", "a", "t", "e">>
s_time == <<"t", "i", "m", "e">>
s_interval == <<"i", "n", "t", "e", "r", "v", "a", "l">>
s_geo == <<"g", "e", "o">>
s_byte == <<"b", "y", "t", "e">>
s_binary == <<"b", "i", "n", "a", "r", "y">>
s_uuid == <<"u", "u", "i", "d">>
s_long_varchar == <<"l", "o", "n", "g", " ", "v", "a", "r", "c", "h", "a", "r">>
s_true == <<"t", "r", "u", "e">>
s_false == <<"f", "a", "l", "s", "e">>
s_empty == <<>>

\* Longest-string samples the engine may return for the format probe.
smp_json == <<"{", "a", ":", "1", "}">>
smp_pipe == <<"1", "0", "|", "2", "0", "|", "3", "0">>
smp_mixed == <<"1", ",", "2", ";", "3", ",", "4">>
smp_paren == <<" ", "(", "1", ",", ",", "2", ")", " ">>
smp_braces == <<"{", "}">>

\* Python's None (fetchfirstelem on an empty relation or a NULL value):
\* a one-element tuple holding a token no one-character string equals.
None == <<"None">>

(***************************************************************************)
(* Python string operations used by the source.                            *)
(***************************************************************************)
Min(a, b) == IF a < b THEN a ELSE b

\* s.startswith(p)
StartsWith(s, p) == Len(s) >= Len(p) /\ SubSeq(s, 1, Len(p)) = p

\* s[a:b] for 0 <= a, 0 <= b (clamped to the length, as Python does)
Slice(s, a, b) == SubSeq(s, a + 1, Min(b, Len(s)))

\* s.count(ch) for a one-character ch
Count(s, ch) == Cardinality({i \in 1..Len(s) : s[i] = ch})

\* s.count(ch + ch) > 0
HasDouble(s, ch) == \E i \in 1..(Len(s) - 1) : s[i] = ch /\ s[i + 1] = ch

\* s.replace(" ", "")
RemoveSpaces(s) == SelectSeq(s, LAMBDA x : x # " ")

\* s.strip()
strip(s) ==
  LET keep == {i \in 1..Len(s) : s[i] # " "}
  IN IF keep = {} THEN <<>>
     ELSE LET lo == CHOOSE i \in keep : \A j \in keep : i <= j
              hi == CHOOSE i \in keep : \A j \in keep : j <= i
          IN SubSeq(s, lo, hi)

\* one character of s.lower(), over the letters the inputs use
LowerChar(ch) ==
  CASE ch = "I" -> "i"
    [] ch = "B" -> "b"
    [] ch = "N" -> "n"
    [] ch = "T" -> "t"
    [] OTHER -> ch

\* s.lower()
lower(s) == [i \in 1..Len(s) |-> LowerChar(s[i])]

(***************************************************************************)
(* Collaborators of astype that live outside _typing.py.                   *)
(***************************************************************************)
\* to_sql_dtype: normalise the requested label (lower, trim).
to_sql_dtype(dtype) == strip(lower(dtype))

\* to_category: the classification table of type labels.
to_category(ctype) ==
  LET Family(prefixes) == \E p \in prefixes : StartsWith(ctype, p)
  IN CASE Family({s_vmap}) -> "vmap"
       [] Family({s_array}) -> "text"
       [] Family({s_date, s_time, s_interval}) -> "date"
       [] Family({s_int, s_bool}) -> "int"
       [] Family({s_float, s_numeric, s_double}) -> "float"
       [] Family({s_varchar, s_char, s_long_varchar}) -> "text"
       [] Family({s_byte, s_binary}) -> "binary"
       [] Family({s_geo}) -> "spatial"
       [] Family({s_uuid}) -> "uuid"
       [] OTHER -> "undefined"

\* guess_sep: the delimiter candidates in priority order; the first one
\* whose count in the sample is non-zero and maximal, "," when none occurs.
SepCandidates == <<",", "|", ";">>

guess_sep(file_str) ==
  LET n == Len(SepCandidates)
      cnt(i) == Count(file_str, SepCandidates[i])
      best == {i \in 1..n : cnt(i) > 0 /\ \A j \in 1..n : cnt(j) <= cnt(i)}
  IN IF best = {} THEN SepCandidates[1]
     ELSE SepCandidates[CHOOSE i \in best : \A j \in best : i <= j]

\* The lexicographic order of version triples.
VersionAtLeast(v, condition) ==
  \/ v[1] > condition[1]
  \/ v[1] = condition[1] /\ v[2] > condition[2]
  \/ v[1] = condition[1] /\ v[2] = condition[2] /\ v[3] >= condition[3]

(***************************************************************************)
(* The run of one astype call: the local variables of the try block.       *)
(*   dtype            the dtype variable (reassigned at lines 225, 260)    *)
(*   queries          the round trips issued to the engine so far          *)
(*   cause            "none" while running, else the exception raised      *)
(*   transformation_2 the expression template built                        *)
(*   biggest_str      the longest string fetched (None before the fetch)   *)
(*   probed           the expression the validation probe was issued for   *)
(* eng is what the engine answers during the call:                         *)
(*   eng.biggest_str  the longest string of the column, or None            *)
(*   eng.reject       the round trip the engine answers with an error      *)
(***************************************************************************)
NoTransformation == [fn |-> "", params |-> <<>>, cast |-> s_empty]

Start(dtype) ==
  [dtype |-> dtype, queries |-> <<>>, cause |-> "none",
   transformation_2 |-> NoTransformation, biggest_str |-> None,
   probed |-> NoTransformation]

Running(ctx) == ctx.cause = "none"

Raise(ctx, cause) == [ctx EXCEPT !.cause = cause]

\* _executeSQL: one round trip; the engine's error is raised to the caller.
executeSQL(ctx, kind, eng) ==
  IF ~Running(ctx) THEN ctx
  ELSE LET sent == [ctx EXCEPT !.queries = Append(@, kind)]
       IN IF eng.reject = kind THEN Raise(sent, "QueryError") ELSE sent

\* vertica_version(condition): asks the engine its version and raises when
\* it is below the condition.
vertica_version(ctx, condition, v, eng) ==
  LET asked == executeSQL(ctx, "version", eng)
  IN IF Running(asked) /\ ~VersionAtLeast(v, condition)
     THEN Raise(asked, "VersionError")
     ELSE asked

\* Mutant of category: the category of the first entry, fixed at load time.
category_first(chain) == chain[1][3]

\* category(): the category of the last chain entry.
category(chain) == chain[Len(chain)][3]

\* Mutant of ctype: the declared type as it is stored.
ctype_stored(chain) == chain[Len(chain)][2]

\* ctype(): the declared type of the last chain entry, lower case.
ctype(chain) == lower(chain[Len(chain)][2])

\* isarray(), line 325
isarray(chain) == lower(Slice(ctype(chain), 0, 5)) = s_array

\* Mutant of isbool: only the label bool itself is boolean.
isbool_exact(chain) == ctype(chain) = s_bool

\* isbool(), line 337
isbool(chain) == Slice(ctype(chain), 0, 4) = s_bool

\* isdate(), line 349
isdate(chain) == category(chain) = "date"

\* isnum(), line 361
isnum(chain) == category(chain) \in {"float", "int"}

\* verticapy.sql.flex.isvmap(column, expr): asks the engine whether the
\* column of the relation holds maps; answer is what the engine says.
flex_isvmap(answer) == [result |-> answer, queries |-> <<"isvmap">>]

\* isvmap(), lines 373-375: the engine is asked unless the category is vmap
isvmap(chain, answer) ==
  IF category(chain) = "vmap"
  THEN [result |-> TRUE, queries |-> <<>>]
  ELSE flex_isvmap(answer)


(***************************************************************************)
(* vDCTyping.astype, lines 193-286.                                        *)
(***************************************************************************)
\* Mutant of ArrayVersionGate: the gate left out.
ArrayVersionGate_absent(ctx, v, eng) == ctx

\* lines 198-199: the version gate of an array target
ArrayVersionGate(ctx, v, eng) ==
  IF ctx.dtype = s_array
  THEN vertica_version(ctx, <<10, 0, 0>>, v, eng)
  ELSE ctx

\* Mutant of FetchBiggestStr: the probe issued once per inferred parameter.
FetchBiggestStr_twice(ctx, eng) ==
  LET got == executeSQL(executeSQL(ctx, "biggest_str", eng), "biggest_str", eng)
  IN IF ~Running(got) THEN got
     ELSE IF eng.biggest_str = None THEN Raise(got, "AttributeError")
     ELSE [got EXCEPT !.biggest_str = strip(eng.biggest_str)]

\* lines 200-209: the longest string of the column, stripped; None has no
\* strip()
FetchBiggestStr(ctx, eng) ==
  LET got == executeSQL(ctx, "biggest_str", eng)
  IN IF ~Running(got) THEN got
     ELSE IF eng.biggest_str = None THEN Raise(got, "AttributeError")
     ELSE [got EXCEPT !.biggest_str = strip(eng.biggest_str)]

\* Mutant of VmapTransformation: a sample is JSON as soon as it starts and
\* ends with a brace, whatever its length.
VmapTransformation_anyLength(dtype, biggest_str, sep) ==
  IF /\ Len(biggest_str) >= 2
     /\ biggest_str[1] = "{"
     /\ biggest_str[Len(biggest_str)] = "}"
  THEN [fn |-> "MAPJSONEXTRACTOR",
        params |-> << <<"flatten_maps", s_false>> >>,
        cast |-> s_empty]
  ELSE LET header_names ==
             IF /\ Len(dtype) > 4
                /\ Slice(dtype, 0, 5) = s_vmap_open
                /\ dtype[Len(dtype)] = ")"
             THEN << <<"header_names", Slice(dtype, 5, Len(dtype) - 1)>> >>
             ELSE <<>>
       IN [fn |-> "MAPDELIMITEDEXTRACTOR",
           params |-> << <<"delimiter", <<sep>> >> >> \o header_names,
           cast |-> s_empty]

\* lines 212-224: the map extractor of a vmap target
VmapTransformation(dtype, biggest_str, sep) ==
  IF /\ Len(biggest_str) > 2
     /\ biggest_str[1] = "{"
     /\ biggest_str[Len(biggest_str)] = "}"
  THEN [fn |-> "MAPJSONEXTRACTOR",
        params |-> << <<"flatten_maps", s_false>> >>,
        cast |-> s_empty]
  ELSE LET header_names ==
             IF /\ Len(dtype) > 4
                /\ Slice(dtype, 0, 5) = s_vmap_open
                /\ dtype[Len(dtype)] = ")"
             THEN << <<"header_names", Slice(dtype, 5, Len(dtype) - 1)>> >>
             ELSE <<>>
       IN [fn |-> "MAPDELIMITEDEXTRACTOR",
           params |-> << <<"delimiter", <<sep>> >> >> \o header_names,
           cast |-> s_empty]

\* Mutant of ArrayTransformation: the delimiter is always the comma.
ArrayTransformation_comma(biggest_str, sep) ==
  LET collection_null_element ==
        IF HasDouble(RemoveSpaces(biggest_str), sep)
        THEN << <<"collection_null_element", s_empty>> >>
        ELSE <<>>
      brackets ==
        IF /\ Len(biggest_str) > 2
           /\ \/ biggest_str[1] = "(" /\ biggest_str[Len(biggest_str)] = ")"
              \/ biggest_str[1] = "{" /\ biggest_str[Len(biggest_str)] = "}"
        THEN << <<"collection_open", <<biggest_str[1]>> >>,
                <<"collection_close", <<biggest_str[Len(biggest_str)]>> >> >>
        ELSE <<>>
  IN [fn |-> "STRING_TO_ARRAY",
      params |-> << <<"collection_delimiter", <<",">> >> >>
                   \o brackets \o collection_null_element,
      cast |-> s_empty]

\* Mutant of ArrayTransformation: brackets inferred whatever the length.
ArrayTransformation_anyLength(biggest_str, sep) ==
  LET collection_null_element ==
        IF HasDouble(RemoveSpaces(biggest_str), sep)
        THEN << <<"collection_null_element", s_empty>> >>
        ELSE <<>>
      brackets ==
        IF /\ Len(biggest_str) >= 2
           /\ \/ biggest_str[1] = "(" /\ biggest_str[Len(biggest_str)] = ")"
              \/ biggest_str[1] = "{" /\ biggest_str[Len(biggest_str)] = "}"
        THEN << <<"collection_open", <<biggest_str[1]>> >>,
                <<"collection_close", <<biggest_str[Len(biggest_str)]>> >> >>
        ELSE <<>>
  IN [fn |-> "STRING_TO_ARRAY",
      params |-> << <<"collection_delimiter", <<sep>> >> >>
                   \o brackets \o collection_null_element,
      cast |-> s_empty]

\* lines 227-245: the array extractor of an array target
ArrayTransformation(biggest_str, sep) ==
  LET collection_null_element ==
        IF HasDouble(RemoveSpaces(biggest_str), sep)
        THEN << <<"collection_null_element", s_empty>> >>
        ELSE <<>>
      brackets ==
        IF /\ Len(biggest_str) > 2
           /\ \/ biggest_str[1] = "(" /\ biggest_str[Len(biggest_str)] = ")"
              \/ biggest_str[1] = "{" /\ biggest_str[Len(biggest_str)] = "}"
        THEN << <<"collection_open", <<biggest_str[1]>> >>,
                <<"collection_close", <<biggest_str[Len(biggest_str)]>> >> >>
        ELSE <<>>
  IN [fn |-> "STRING_TO_ARRAY",
      params |-> << <<"collection_delimiter", <<sep>> >> >>
                   \o brackets \o collection_null_element,
      cast |-> s_empty]

\* lines 198-245: array or vmap target on a text column
ExtractFromText(ctx, v, eng) ==
  LET got == FetchBiggestStr(ArrayVersionGate(ctx, v, eng), eng)
  IN IF ~Running(got) THEN got
     ELSE LET biggest_str == got.biggest_str
              sep == guess_sep(biggest_str)
          IN IF StartsWith(ctx.dtype, s_vmap)
             THEN [got EXCEPT
                     !.transformation_2 =
                        VmapTransformation(ctx.dtype, biggest_str, sep),
                     !.dtype = s_vmap]
             ELSE [got EXCEPT
                     !.transformation_2 = ArrayTransformation(biggest_str, sep)]

\* lines 249-251: varchar/char target on a vmap column
MapToString(ctx) ==
  [ctx EXCEPT !.transformation_2 =
     [fn |-> "MAPTOSTRING",
      params |-> << <<"canonical_json", s_false>> >>,
      cast |-> ctx.dtype]]

\* Mutant of ToJson: the declared type keeps the label json.
ToJson_keepsLabel(ctx, chain, v, eng) ==
  IF category(chain) = "vmap"
  THEN [ctx EXCEPT
          !.transformation_2 =
             [fn |-> "MAPTOSTRING",
              params |-> << <<"canonical_json", s_true>> >>,
              cast |-> s_empty]]
  ELSE LET checked == vertica_version(ctx, <<10, 1, 0>>, v, eng)
       IN IF ~Running(checked) THEN checked
          ELSE [checked EXCEPT
                  !.transformation_2 =
                     [fn |-> "TO_JSON", params |-> <<>>, cast |-> s_empty]]

\* Mutant of ToJson: the generic conversion whatever the category.
ToJson_alwaysGeneric(ctx, chain, v, eng) ==
  LET checked == vertica_version(ctx, <<10, 1, 0>>, v, eng)
  IN IF ~Running(checked) THEN checked
     ELSE [checked EXCEPT
             !.transformation_2 =
                [fn |-> "TO_JSON", params |-> <<>>, cast |-> s_empty],
             !.dtype = s_varchar]

\* lines 253-260: json target
ToJson(ctx, chain, v, eng) ==
  IF category(chain) = "vmap"
  THEN [ctx EXCEPT
          !.transformation_2 =
             [fn |-> "MAPTOSTRING",
              params |-> << <<"canonical_json", s_true>> >>,
              cast |-> s_empty],
          !.dtype = s_varchar]
  ELSE LET checked == vertica_version(ctx, <<10, 1, 0>>, v, eng)
       IN IF ~Running(checked) THEN checked
          ELSE [checked EXCEPT
                  !.transformation_2 =
                     [fn |-> "TO_JSON", params |-> <<>>, cast |-> s_empty],
                  !.dtype = s_varchar]

\* line 262: every other target
PlainCast(ctx) ==
  [ctx EXCEPT !.transformation_2 =
     [fn |-> "", params |-> <<>>, cast |-> ctx.dtype]]

\* Mutant of Dispatch: the extraction branch taken whatever the category.
Dispatch_anyCategory(chain, dtype, v, eng) ==
  IF dtype = s_array \/ StartsWith(dtype, s_vmap)
  THEN ExtractFromText(Start(dtype), v, eng)
  ELSE IF /\ Slice(dtype, 0, 7) = s_varchar \/ Slice(dtype, 0, 4) = s_char
          /\ category(chain) = "vmap"
  THEN MapToString(Start(dtype))
  ELSE IF dtype = s_json
  THEN ToJson(Start(dtype), chain, v, eng)
  ELSE PlainCast(Start(dtype))

\* lines 195-262: the dispatch on (target, current category)
Dispatch(chain, dtype, v, eng) ==
  IF (dtype = s_array \/ StartsWith(dtype, s_vmap)) /\ category(chain) = "text"
  THEN ExtractFromText(Start(dtype), v, eng)
  ELSE IF /\ Slice(dtype, 0, 7) = s_varchar \/ Slice(dtype, 0, 4) = s_char
          /\ category(chain) = "vmap"
  THEN MapToString(Start(dtype))
  ELSE IF dtype = s_json
  THEN ToJson(Start(dtype), chain, v, eng)
  ELSE PlainCast(Start(dtype))

\* line 264: transformation_2.format(alias); a brace inside a parameter
\* value opens a replacement field that str.format cannot resolve
FormatTemplate(ctx) ==
  IF /\ Running(ctx)
     /\ \E i \in 1..Len(ctx.transformation_2.params) :
          \E k \in 1..Len(ctx.transformation_2.params[i][2]) :
             ctx.transformation_2.params[i][2][k] \in {"{", "}"}
  THEN Raise(ctx, "KeyError")
  ELSE ctx

\* Mutant of ValidationProbe: the new expression is not probed.
ValidationProbe_skipped(ctx, eng) == ctx

\* lines 265-277: the validation probe of the new expression
ValidationProbe(ctx, eng) ==
  IF ~Running(ctx) THEN ctx
  ELSE [executeSQL(ctx, "validate", eng) EXCEPT
          !.probed = ctx.transformation_2]

\* lines 194-277: the try block up to the probe
TryBlock(chain, dtype, v, eng) ==
  ValidationProbe(FormatTemplate(Dispatch(chain, dtype, v, eng)), eng)

\* line 278: the entry appended
NewEntry(ctx) == <<ctx.transformation_2, ctx.dtype, to_category(ctx.dtype)>>

\* Mutant of Commit: the entry appended before the validation probe.
Commit_beforeProbe(chain, ctx) ==
  IF \/ Running(ctx)
     \/ /\ Len(ctx.queries) > 0
        /\ ctx.queries[Len(ctx.queries)] = "validate"
  THEN Append(chain, NewEntry(ctx))
  ELSE chain

\* Mutant of Commit: the last entry overwritten instead of a new one added.
Commit_overwrite(chain, ctx) ==
  IF Running(ctx)
  THEN [chain EXCEPT ![Len(chain)] = NewEntry(ctx)]
  ELSE chain

\* line 278: self._transf += [...], reached only when nothing was raised
Commit(chain, ctx) ==
  IF Running(ctx) THEN Append(chain, NewEntry(ctx)) ELSE chain

\* lines 279-281: _add_to_history, after the append
AddToHistory(h, alias, ctx) ==
  IF Running(ctx) THEN Append(h, <<alias, ctx.dtype>>) ELSE h

\* Mutant of RaisedKind: the exception raised again as it is.
RaisedKind_reraise(ctx) == IF Running(ctx) THEN "none" ELSE ctx.cause

\* lines 283-286: every exception is raised again as ConversionError
RaisedKind(ctx) == IF Running(ctx) THEN "none" ELSE "ConversionError"

\* line 285: the type the error message names is the dtype variable
ErrorNames(ctx) == IF Running(ctx) THEN s_empty ELSE ctx.dtype

(***************************************************************************)
(* The table: its columns, the engine, the inputs.                         *)
(***************************************************************************)
Columns == {"age", "price"}

\* The native types the loader finds: age is text, price is anything.
InitialTypes(c) ==
  IF c = "age" THEN {s_varchar} ELSE {s_varchar, s_int, s_Boolean}

Versions == {<<9, 3, 0>>, <<10, 0, 0>>, <<10, 1, 0>>}

RequestedTypes ==
  {s_array, s_vmap, s_vmap_hdr, s_json, s_varchar, s_char9, s_INT_sp}

Samples == {smp_json, smp_pipe, smp_mixed, smp_paren, smp_braces}

EngineAnswers ==
  [biggest_str : Samples \cup {None},
   reject : {"none", "version", "biggest_str", "validate"}]

\* The chain of a column as the loader creates it from the native type.
InitialChain(alias, t) ==
  << <<[fn |-> alias, params |-> <<>>, cast |-> s_empty], t,
       to_category(lower(t))>> >>

(***************************************************************************)
(* connect/read.py: read_dsn.  Option names and values are sequences of    *)
(* characters; a value of the connection dictionary is a string, an        *)
(* integer or a boolean.                                                   *)
(***************************************************************************)
n_env == <<"e", "n", "v">>
n_pwd == <<"p", "w", "d">>
n_password == <<"p", "a", "s", "s", "w", "o", "r", "d">>
n_uid == <<"u", "i", "d">>
n_user == <<"u", "s", "e", "r">>
n_servername == <<"s", "e", "r", "v", "e", "r", "n", "a", "m", "e">>
n_server == <<"s", "e", "r", "v", "e", "r">>
n_host == <<"h", "o", "s", "t">>
n_port == <<"p", "o", "r", "t">>
n_connection_timeout == <<"c", "o", "n", "n", "e", "c", "t", "i", "o", "n", "_", "t", "i", "m", "e", "o", "u", "t">>
n_backup_server_node == <<"b", "a", "c", "k", "u", "p", "_", "s", "e", "r", "v", "e", "r", "_", "n", "o", "d", "e">>
n_kerberosservicename == <<"k", "e", "r", "b", "e", "r", "o", "s", "s", "e", "r", "v", "i", "c", "e", "n", "a", "m", "e">>
n_kerberos_service_name == <<"k", "e", "r", "b", "e", "r", "o", "s", "_", "s", "e", "r", "v", "i", "c", "e", "_", "n", "a", "m", "e">>
n_kerberoshostname == <<"k", "e", "r", "b", "e", "r", "o", "s", "h", "o", "s", "t", "n", "a", "m", "e">>
n_kerberos_host_name == <<"k", "e", "r", "b", "e", "r", "o", "s", "_", "h", "o", "s", "t", "_", "n", "a", "m", "e">>
n_vp_test == <<"v", "p", "_", "t", "e", "s", "t", "_">>
n_ssl == <<"s", "s", "l">>
n_autocommit == <<"a", "u", "t", "o", "c", "o", "m", "m", "i", "t">>
n_use_prepared_statements == <<"u", "s", "e", "_", "p", "r", "e", "p", "a", "r", "e", "d", "_", "s", "t", "a", "t", "e", "m", "e", "n", "t", "s">>
n_connection_load_balance == <<"c", "o", "n", "n", "e", "c", "t", "i", "o", "n", "_", "l", "o", "a", "d", "_", "b", "a", "l", "a", "n", "c", "e">>
n_disable_copy_local == <<"d", "i", "s", "a", "b", "l", "e", "_", "c", "o", "p", "y", "_", "l", "o", "c", "a", "l">>
n_session_label == <<"s", "e", "s", "s", "i", "o", "n", "_", "l", "a", "b", "e", "l">>
n_dbadmin == <<"d", "b", "a", "d", "m", "i", "n">>
n_true == <<"t", "r", "u", "e">>
n_t == <<"t">>
n_yes == <<"y", "e", "s">>
n_y == <<"y">>

\* An option of the section that starts with env without being env.
n_env2 == <<"e", "n", "v", "2">>

\* An option of the test configuration, stored without its vp_test_ prefix.
n_vp_test_host ==
  <<"v", "p", "_", "t", "e", "s", "t", "_", "h", "o", "s", "t">>

\* The label of the session, a constant of verticapy.connect.connect.
SESSION_LABEL == <<"v", "p", "y">>

\* Values written in a section, and values of environment variables.
v_True == <<"T", "r", "u", "e">>
v_no == <<"n", "o">>
v_PW == <<"P", "W">>
v_ME == <<"M", "E">>
v_NOPE == <<"N", "O", "P", "E">>
v_5434 == <<"5", "4", "3", "4">>
v_s3 == <<"s", "3">>
v_al == <<"a", "l">>

DefaultPort == 5433

Str(s) == [t |-> "str", s |-> s, n |-> 0, b |-> FALSE]
IntV(n) == [t |-> "int", s |-> <<>>, n |-> n, b |-> FALSE]
BoolV(b) == [t |-> "bool", s |-> <<>>, n |-> 0, b |-> b]

\* conn_info[key] = value, the dictionary being a set of (key, value) pairs
Put(conn_info, key, value) ==
  {p \in conn_info : p[1] # key} \cup {<<key, value>>}

\* ("true", "t", "yes", "y"), lines 75 and 137
Truthy == {n_true, n_t, n_yes, n_y}

Digits == {"0", "1", "2", "3", "4", "5", "6", "7", "8", "9"}

DigitOf(ch) ==
  CASE ch = "0" -> 0 [] ch = "1" -> 1 [] ch = "2" -> 2 [] ch = "3" -> 3
    [] ch = "4" -> 4 [] ch = "5" -> 5 [] ch = "6" -> 6 [] ch = "7" -> 7
    [] ch = "8" -> 8 [] ch = "9" -> 9

\* s.isnumeric(), for ASCII s
isnumeric(s) == Len(s) > 0 /\ \A i \in 1..Len(s) : s[i] \in Digits

RECURSIVE int(_)
\* int(s) for a string of digits
int(s) ==
  IF Len(s) = 0 THEN 0
  ELSE 10 * int(SubSeq(s, 1, Len(s) - 1)) + DigitOf(s[Len(s)])

\* sub in s
Contains(s, sub) ==
  \E i \in 1..(Len(s) - Len(sub) + 1) : SubSeq(s, i, i + Len(sub) - 1) = sub

\* os.getenv(name)
getenv(environ, name) ==
  IF name \in DOMAIN environ THEN environ[name] ELSE None

\* Mutant of EnvFlag: any option starting with env may set the flag.
EnvFlag_any(options) ==
  \E i \in 1..Len(options) :
     /\ StartsWith(lower(options[i][1]), n_env)
     /\ lower(options[i][2]) \in Truthy

\* lines 72-78: the first option whose name starts with env decides
EnvFlag(options) ==
  LET hits == {i \in 1..Len(options) : StartsWith(lower(options[i][1]), n_env)}
  IN IF hits = {} THEN FALSE
     ELSE LET first == CHOOSE i \in hits : \A j \in hits : i <= j
          IN lower(options[first][2]) \in Truthy

\* lines 82-140: one pass of the second loop, on the option (name0, val)
SetOption(st, name0, val, env, environ) ==
  LET name == lower(name0)
      set(key, value) == [st EXCEPT !.conn_info = Put(@, key, value)]
  IN IF st.raised # "none" THEN st
     ELSE IF name \in {n_pwd, n_password, n_uid, n_user} /\ env
     THEN LET key == IF name = n_pwd THEN n_password
                     ELSE IF name = n_uid THEN n_user ELSE name
          IN IF getenv(environ, val) # None
             THEN set(key, Str(getenv(environ, val)))
             ELSE [st EXCEPT !.raised = "ParameterError"]
     ELSE IF name \in {n_servername, n_server} THEN set(n_host, Str(val))
     ELSE IF name = n_uid THEN set(n_user, Str(val))
     ELSE IF name \in {n_port, n_connection_timeout} /\ isnumeric(val)
     THEN set(name, IntV(int(val)))
     ELSE IF name = n_pwd THEN set(n_password, Str(val))
     \* exec("id_port = '<val>'"), for a val without quote or backslash
     ELSE IF name = n_backup_server_node THEN set(name, Str(val))
     ELSE IF name = n_kerberosservicename
     THEN set(n_kerberos_service_name, Str(val))
     ELSE IF name = n_kerberoshostname
     THEN set(n_kerberos_host_name, Str(val))
     ELSE IF Contains(name, n_vp_test) THEN set(Slice(name, 8, Len(name)), Str(val))
     ELSE IF name \in {n_ssl, n_autocommit, n_use_prepared_statements,
                       n_connection_load_balance, n_disable_copy_local}
     THEN set(name, BoolV(lower(val) \in Truthy))
     ELSE IF name # n_session_label /\ ~StartsWith(name, n_env)
     THEN set(name, Str(val))
     ELSE st

RECURSIVE ReadOptions(_, _, _, _, _)
\* lines 80-140: for option_name, option_val in options, from option i on
ReadOptions(st, options, env, environ, i) ==
  IF i > Len(options) THEN st
  ELSE ReadOptions(SetOption(st, options[i][1], options[i][2], env, environ),
                   options, env, environ, i + 1)

\* lines 67-71
DefaultConnInfo ==
  {<<n_port, IntV(DefaultPort)>>, <<n_user, Str(n_dbadmin)>>,
   <<n_session_label, Str(SESSION_LABEL)>>}

\* read_dsn, lines 63-146: what the caller gets
read_dsn(present, options, environ) ==
  IF ~present
  THEN [raised |-> "NameError", returned |-> FALSE, conn_info |-> {}]
  ELSE LET st == ReadOptions([raised |-> "none", conn_info |-> DefaultConnInfo],
                             options, EnvFlag(options), environ, 1)
       IN IF st.raised = "none"
          THEN [raised |-> "none", returned |-> TRUE, conn_info |-> st.conn_info]
          ELSE [raised |-> st.raised, returned |-> FALSE, conn_info |-> {}]

\* The options a section may hold: no name twice, in the order of the file.
OptionPool ==
  {<<n_env, v_True>>, <<n_env2, v_no>>,
   <<n_pwd, v_PW>>, <<n_password, v_NOPE>>, <<n_uid, v_ME>>, <<n_user, v_PW>>,
   <<n_host, v_PW>>, <<n_servername, v_ME>>, <<n_server, v_PW>>,
   <<n_port, v_5434>>, <<n_connection_timeout, v_no>>, <<n_ssl, v_True>>,
   <<n_kerberosservicename, v_PW>>, <<n_kerberoshostname, v_ME>>,
   <<n_vp_test_host, v_ME>>, <<n_session_label, v_PW>>}

MaxOptions == 3

Sections ==
  {s \in UNION {[1..k -> OptionPool] : k \in 0..MaxOptions} :
     \A i \in 1..Len(s), j \in 1..Len(s) : i # j => s[i][1] # s[j][1]}

\* os.environ
Environments ==
  {<<>>, [x \in {v_PW} |-> v_s3],
   [x \in {v_PW, v_ME} |-> IF x = v_PW THEN v_s3 ELSE v_al]}

\* No read_dsn call is made.
DsnOff ==
  [phase |-> "off", present |-> FALSE, options |-> <<>>, environ |-> <<>>,
   raised |-> "none", returned |-> FALSE, conn_info |-> {}]

\* No call is pending: the caller holds no result.
Idle ==
  [op |-> "none", col |-> "", dtype |-> s_empty, queries |-> <<>>,
   raised |-> "none", cause |-> "none", names |-> s_empty,
   sample |-> None, built |-> NoTransformation, probed |-> NoTransformation,
   result |-> <<>>, keys |-> <<>>]

Appended == Len(history)

Init ==
  /\ transf \in {[c \in Columns |-> InitialChain(c, f[c])] :
                    f \in {g \in [Columns -> {s_varchar, s_int, s_Boolean}] :
                             \A c \in Columns : g[c] \in InitialTypes(c)}}
  /\ history = <<>>
  /\ version \in Versions
  /\ last = Idle
  /\ dsn = DsnOff

\* vDataColumn.astype(dtype) on column c: the whole call, from line 193 to
\* the return (line 282) or the raise (line 284)
astype(c, dtype0, eng) ==
  /\ last = Idle
  /\ Appended < MaxAppends
  /\ \E ctx \in {TryBlock(transf[c], to_sql_dtype(dtype0), version, eng)} :
        /\ transf' = [transf EXCEPT ![c] = Commit(@, ctx)]
        /\ history' = AddToHistory(history, c, ctx)
        /\ last' = [op |-> "astype", col |-> c, dtype |-> to_sql_dtype(dtype0),
                    queries |-> ctx.queries, raised |-> RaisedKind(ctx),
                    cause |-> ctx.cause, names |-> ErrorNames(ctx),
                    sample |-> ctx.biggest_str,
                    built |-> ctx.transformation_2, probed |-> ctx.probed,
                    result |-> <<>>, keys |-> <<>>]
  /\ UNCHANGED <<version, dsn>>

(***************************************************************************)
(* vDFTyping: the operations over the columns of the table.                *)
(***************************************************************************)
\* get_columns(): the columns of the table in their order.
get_columns == <<"age", "price">>

\* The dictionaries given to astype: (column, type) items in the order of
\* the dictionary, no column twice.
DictTypes == {s_INT_sp, s_vmap}

Dicts ==
  {<< <<k[1], d1>>, <<k[2], d2>> >> :
     k \in {<<"age", "price">>, <<"price", "age">>},
     d1 \in DictTypes, d2 \in DictTypes}

\* What the engine answers to the casts of one table-level call.
LoopAnswers ==
  [1..2 -> [biggest_str : {smp_pipe}, reject : {"none", "validate"}]]

\* The state of a loop over columns: the chains, the history, the round
\* trips, and the position and context of the cast that raised (0: none).
LoopStart(tr, h) ==
  [transf |-> tr, history |-> h, queries |-> <<>>, failed |-> 0,
   ctx |-> Start(s_empty)]

\* One column-level astype inside a loop (lines 58, 74): an exception
\* leaves the loop.
LoopCast(st, c, dtype, v, eng, i) ==
  LET ctx == TryBlock(st.transf[c], to_sql_dtype(dtype), v, eng)
  IN [transf |-> [st.transf EXCEPT ![c] = Commit(@, ctx)],
      history |-> AddToHistory(st.history, c, ctx),
      queries |-> st.queries \o ctx.queries,
      failed |-> IF Running(ctx) THEN 0 ELSE i,
      ctx |-> ctx]

RECURSIVE AstypeEach(_, _, _, _, _)
\* vDFTyping.astype, lines 57-58: for column in dtype, from item i on
AstypeEach(st, dict, v, engs, i) ==
  IF i > Len(dict) \/ st.failed # 0 THEN st
  ELSE AstypeEach(LoopCast(st, dict[i][1], dict[i][2], v, engs[i], i),
                  dict, v, engs, i + 1)

\* Mutant of AstypeLoop: a failure undoes the casts made before it.
AstypeLoop_atomic(tr, h, dict, v, engs) ==
  LET st == AstypeEach(LoopStart(tr, h), dict, v, engs, 1)
  IN IF st.failed = 0 THEN st
     ELSE [st EXCEPT !.transf = tr, !.history = h]

\* vDFTyping.astype, lines 57-59
AstypeLoop(tr, h, dict, v, engs) ==
  AstypeEach(LoopStart(tr, h), dict, v, engs, 1)

RECURSIVE BoolToIntEach(_, _, _, _, _)
\* vDFTyping.bool_to_int, lines 72-74: for column in columns, from i on
BoolToIntEach(st, columns, v, engs, i) ==
  IF i > Len(columns) \/ st.failed # 0 THEN st
  ELSE BoolToIntEach(
         IF isbool(st.transf[columns[i]])
         THEN LoopCast(st, columns[i], s_int, v, engs[i], i)
         ELSE st,
         columns, v, engs, i + 1)

\* vDFTyping.bool_to_int, lines 71-75
BoolToIntLoop(tr, h, v, engs) ==
  BoolToIntEach(LoopStart(tr, h), get_columns, v, engs, 1)

\* What a table-level call leaves to the caller.
LoopResult(op, keys, st) ==
  [Idle EXCEPT !.op = op, !.keys = keys, !.queries = st.queries,
               !.col = IF st.failed = 0 THEN "" ELSE keys[st.failed],
               !.raised = IF st.failed = 0 THEN "none" ELSE RaisedKind(st.ctx),
               !.cause = IF st.failed = 0 THEN "none" ELSE st.ctx.cause,
               !.names = IF st.failed = 0 THEN s_empty ELSE ErrorNames(st.ctx)]

\* vDataFrame.astype(dtype) with the dictionary dict
df_astype(dict, engs) ==
  /\ last = Idle
  /\ Appended + Len(dict) <= MaxAppends
  /\ \E st \in {AstypeLoop(transf, history, dict, version, engs)} :
        /\ transf' = st.transf
        /\ history' = st.history
        /\ last' = LoopResult("df_astype",
                              [i \in 1..Len(dict) |-> dict[i][1]], st)
  /\ UNCHANGED <<version, dsn>>

\* vDataFrame.bool_to_int()
bool_to_int(engs) ==
  /\ last = Idle
  /\ Appended + Cardinality({c \in Columns : isbool(transf[c])}) <= MaxAppends
  /\ \E st \in {BoolToIntLoop(transf, history, version, engs)} :
        /\ transf' = st.transf
        /\ history' = st.history
        /\ last' = LoopResult("bool_to_int", get_columns, st)
  /\ UNCHANGED <<version, dsn>>

\* The value a read returns to the caller, as a sequence of strings.
Bool(b) == IF b THEN <<"True">> ELSE <<"False">>

ReadOps ==
  {"category", "ctype", "isarray", "isbool", "isdate", "isnum", "isvmap"}

\* What the read op of a column returns and the round trips it makes.
ReadResult(op, chain, answer) ==
  CASE op = "category" -> [result |-> <<category(chain)>>, queries |-> <<>>]
    [] op = "ctype" -> [result |-> ctype(chain), queries |-> <<>>]
    [] op = "isarray" -> [result |-> Bool(isarray(chain)), queries |-> <<>>]
    [] op = "isbool" -> [result |-> Bool(isbool(chain)), queries |-> <<>>]
    [] op = "isdate" -> [result |-> Bool(isdate(chain)), queries |-> <<>>]
    [] op = "isnum" -> [result |-> Bool(isnum(chain)), queries |-> <<>>]
    [] op = "isvmap" ->
         [result |-> Bool(isvmap(chain, answer).result),
          queries |-> isvmap(chain, answer).queries]

\* category(), ctype() or a predicate called on column c; the same read may
\* be made again directly.
Read(c, op, answer) ==
  /\ last = Idle \/ (last.op = op /\ last.col = c)
  /\ \E r \in {ReadResult(op, transf[c], answer)} :
        last' = [Idle EXCEPT !.op = op, !.col = c,
                             !.result = r.result, !.queries = r.queries]
  /\ UNCHANGED <<transf, history, version, dsn>>

\* The caller takes the result (the table or the exception) of the call.
Return ==
  /\ last # Idle
  /\ last' = Idle
  /\ UNCHANGED <<transf, history, version, dsn>>

Next ==
  \/ \E c \in Columns, dtype0 \in RequestedTypes, eng \in EngineAnswers :
        astype(c, dtype0, eng)
  \/ \E dict \in Dicts, engs \in LoopAnswers : df_astype(dict, engs)
  \/ \E engs \in LoopAnswers : bool_to_int(engs)
  \/ \E c \in Columns, op \in ReadOps, answer \in BOOLEAN : Read(c, op, answer)
  \/ Return

Spec == Init /\ [][Next]_vars

(***************************************************************************)
(* read_dsn on its own: a section and an environment are given, then the   *)
(* call is made.                                                           *)
(***************************************************************************)
InitDsn ==
  /\ transf = [c \in Columns |-> InitialChain(c, s_varchar)]
  /\ history = <<>>
  /\ version = <<10, 1, 0>>
  /\ last = Idle
  /\ \E present \in BOOLEAN, options \in Sections, environ \in Environments :
        /\ ~present => options = <<>>
        /\ dsn = [DsnOff EXCEPT !.phase = "given", !.present = present,
                                !.options = options, !.environ = environ]

\* read_dsn(section, dsn)
ReadDsn ==
  /\ dsn.phase = "given"
  /\ \E r \in {read_dsn(dsn.present, dsn.options, dsn.environ)} :
        dsn' = [dsn EXCEPT !.phase = "done", !.raised = r.raised,
                           !.returned = r.returned, !.conn_info = r.conn_info]
  /\ UNCHANGED <<transf, history, version, last>>

NextDsn == ReadDsn

SpecDsn == InitDsn /\ [][NextDsn]_vars

(***************************************************************************)
(* Vocabulary of the properties.  They read the chain entries by position  *)
(* and the record of the call, not through the operators of the model.     *)
(***************************************************************************)
\* A step that is one astype call.
Called == last = Idle /\ last'.op = "astype"

\* The category and the last entry of column c before and after the step.
CategoryBefore(c) == transf[c][Len(transf[c])][3]
EntryAfter(c) == transf'[c][Len(transf'[c])]

\* The step appended exactly one entry to column c and kept the others.
AppendedOne(c) ==
  /\ Len(transf'[c]) = Len(transf[c]) + 1
  /\ SubSeq(transf'[c], 1, Len(transf[c])) = transf[c]

\* The last entry of the column the last call was about.
LastEntry == transf[last.col][Len(transf[last.col])]

Succeeded == last.op = "astype" /\ last.raised = "none"
Failed == last.op = "astype" /\ last.raised # "none"

IsIn(kind, queries) == \E i \in 1..Len(queries) : queries[i] = kind

CharFamily(dtype) ==
  \/ Len(dtype) >= 7 /\ SubSeq(dtype, 1, 7) = s_varchar
  \/ Len(dtype) >= 4 /\ SubSeq(dtype, 1, 4) = s_char

VmapLabel(dtype) == Len(dtype) >= 4 /\ SubSeq(dtype, 1, 4) = s_vmap

(***************************************************************************)
(* C1: whenever an astype call raises, at whatever point of the call (the  *)
(* version check, the longest-string probe, the handling of its answer,    *)
(* the formatting of the template, the validation probe), the chain of     *)
(* every column is the same after the call as before it.                   *)
(***************************************************************************)
C1_FailedCastKeepsChain ==
  [][(Called /\ last'.raised # "none") => transf' = transf]_vars

\* A call on a text column that passed the version check and the
\* longest-string probe and failed at the validation probe.
C1_Witness ==
  /\ Failed
  /\ last.cause = "QueryError"
  /\ last.queries = <<"version", "biggest_str", "validate">>

(***************************************************************************)
(* C2: no chain is ever empty, and every step either leaves a chain as it  *)
(* is or appends exactly one entry to it, keeping the earlier entries in   *)
(* place; a successful cast appends exactly one entry to its column.       *)
(***************************************************************************)
C2_AppendOnly ==
  [][/\ \A c \in Columns :
          /\ Len(transf[c]) >= 1
          /\ Len(transf'[c]) >= 1
          /\ transf'[c] = transf[c] \/ AppendedOne(c)
     /\ (Called /\ last'.raised = "none") => AppendedOne(last'.col)]_vars

\* Two successful casts of the same column.
C2_Witness == Succeeded /\ Len(transf[last.col]) = 3

(***************************************************************************)
(* C3 as claimed: after a successful cast the category of the new last     *)
(* entry is the classification of the label the caller requested.          *)
(***************************************************************************)
C3_CategoryOfRequestedLabel ==
  Succeeded => LastEntry[3] = to_category(last.dtype)

(***************************************************************************)
(* C3 as amended: after a successful cast the category of the new last     *)
(* entry is the classification of the requested label, except for 'json',  *)
(* where it is the classification of 'varchar', the label substituted      *)
(* during the call.                                                        *)
(***************************************************************************)
C3_CategoryOfDeclaredLabel ==
  Succeeded =>
    LastEntry[3] =
      to_category(IF last.dtype = s_json THEN s_varchar ELSE last.dtype)

\* A successful cast to json: category text, not the one of the label json.
C3_Witness ==
  /\ Succeeded
  /\ last.dtype = s_json
  /\ LastEntry[3] = "text"
  /\ to_category(s_json) # "text"

(***************************************************************************)
(* C4 as claimed: a cast to 'array' on an engine whose version is below    *)
(* 10.0.0 fails without the longest-string probe and without the           *)
(* validation probe having been issued.                                    *)
(***************************************************************************)
C4_ArrayGateAnyColumn ==
  (/\ last.op = "astype"
   /\ last.dtype = s_array
   /\ ~VersionAtLeast(version, <<10, 0, 0>>))
  => /\ last.raised # "none"
     /\ ~IsIn("biggest_str", last.queries)
     /\ ~IsIn("validate", last.queries)

(***************************************************************************)
(* C4 as amended: a cast to 'array' of a column whose current category is  *)
(* text, on an engine whose version is below 10.0.0, fails without the     *)
(* longest-string probe and without the validation probe being issued.     *)
(***************************************************************************)
C4_ArrayGateTextColumn ==
  [][(/\ Called
      /\ last'.dtype = s_array
      /\ CategoryBefore(last'.col) = "text"
      /\ ~VersionAtLeast(version, <<10, 0, 0>>))
     => /\ last'.raised # "none"
        /\ ~IsIn("biggest_str", last'.queries)
        /\ ~IsIn("validate", last'.queries)]_vars

\* The version gate raised on a text column: the only round trip is the
\* version query.
C4_Witness ==
  /\ Failed
  /\ last.dtype = s_array
  /\ last.cause = "VersionError"
  /\ last.queries = <<"version">>
  /\ LastEntry[3] = "text"

(***************************************************************************)
(* C5 as claimed: a cast that fails at the version gate reports the        *)
(* version error kind, not ConversionError.                                *)
(***************************************************************************)
C5_VersionErrorSurfaces ==
  (last.op = "astype" /\ last.cause = "VersionError")
  => last.raised = "VersionError"

(***************************************************************************)
(* C5 as amended: a cast that fails at the version gate (array on a text   *)
(* column, json on a column that is not a vmap) reports ConversionError,   *)
(* like every other failure; the version error is its cause.               *)
(***************************************************************************)
C5_VersionErrorWrapped ==
  /\ (last.op = "astype" /\ last.cause = "VersionError")
     => last.raised = "ConversionError"
  /\ Failed => last.raised = "ConversionError"

\* The json gate (10.1.0) raised on an engine that passes the array gate.
C5_Witness ==
  /\ last.op = "astype"
  /\ last.dtype = s_json
  /\ last.cause = "VersionError"
  /\ version = <<10, 0, 0>>

(***************************************************************************)
(* C6: every ConversionError names the type the caller requested.          *)
(***************************************************************************)
C6_ErrorNamesRequestedType ==
  Failed => last.names = last.dtype

(***************************************************************************)
(* C7 as claimed: a cast issues at most two round trips to the engine,     *)
(* the version query included.                                             *)
(***************************************************************************)
C7_AtMostTwoRoundTrips ==
  last.op = "astype" => Len(last.queries) <= 2

(***************************************************************************)
(* C7 as amended: a cast issues at most three round trips to the engine:   *)
(* at most one version query, at most one longest-string probe and at most *)
(* one validation probe.                                                   *)
(***************************************************************************)
C7_AtMostThreeRoundTrips ==
  last.op = "astype" =>
    /\ Len(last.queries) <= 3
    /\ \A kind \in {"version", "biggest_str", "validate"} :
          Cardinality({i \in 1..Len(last.queries) : last.queries[i] = kind}) <= 1

\* A successful cast to array: three round trips.
C7_Witness ==
  /\ Succeeded
  /\ last.queries = <<"version", "biggest_str", "validate">>

(***************************************************************************)
(* C8: for the target 'json', on a column whose current category is vmap   *)
(* no version query is issued and the appended expression is MAPTOSTRING   *)
(* with canonical_json=true; on any other column the version query is the  *)
(* first round trip, the call succeeds only on 10.1.0 or later and the     *)
(* appended expression is TO_JSON; in both cases a successful cast appends *)
(* one entry whose declared type is 'varchar'.                             *)
(***************************************************************************)
C8_JsonTarget ==
  [][(Called /\ last'.dtype = s_json) =>
       /\ IF CategoryBefore(last'.col) = "vmap"
          THEN /\ ~IsIn("version", last'.queries)
               /\ last'.raised = "none" =>
                    EntryAfter(last'.col)[1] =
                      [fn |-> "MAPTOSTRING",
                       params |-> << <<"canonical_json", s_true>> >>,
                       cast |-> s_empty]
          ELSE /\ Len(last'.queries) >= 1
               /\ last'.queries[1] = "version"
               /\ last'.raised = "none" =>
                    /\ VersionAtLeast(version, <<10, 1, 0>>)
                    /\ EntryAfter(last'.col)[1] =
                         [fn |-> "TO_JSON", params |-> <<>>, cast |-> s_empty]
       /\ last'.raised = "none" =>
            /\ AppendedOne(last'.col)
            /\ EntryAfter(last'.col)[2] = s_varchar]_vars

\* A column made a vmap by an earlier cast was cast to json.
C8_Witness ==
  /\ Succeeded
  /\ last.dtype = s_json
  /\ LastEntry[1].fn = "MAPTOSTRING"
  /\ LastEntry[2] = s_varchar
  /\ last.queries = <<"validate">>

(***************************************************************************)
(* C9: a successful cast of a text column to vmap appends an entry of      *)
(* category vmap and declared type 'vmap'; a successful cast to a type of  *)
(* the varchar/char family appends, when the category of the last entry at *)
(* call time is vmap, MAPTOSTRING with canonical_json=false cast to the    *)
(* requested type, and otherwise a plain cast; in both cases the category  *)
(* is text and the declared type is the requested one.                     *)
(***************************************************************************)
C9_DispatchOnCurrentCategory ==
  [][(Called /\ last'.raised = "none") =>
       /\ (VmapLabel(last'.dtype) /\ CategoryBefore(last'.col) = "text") =>
            /\ EntryAfter(last'.col)[2] = s_vmap
            /\ EntryAfter(last'.col)[3] = "vmap"
       /\ CharFamily(last'.dtype) =>
            /\ AppendedOne(last'.col)
            /\ EntryAfter(last'.col) =
                 << IF CategoryBefore(last'.col) = "vmap"
                    THEN [fn |-> "MAPTOSTRING",
                          params |-> << <<"canonical_json", s_false>> >>,
                          cast |-> last'.dtype]
                    ELSE [fn |-> "", params |-> <<>>, cast |-> last'.dtype],
                    last'.dtype, "text" >>]_vars

\* age: varchar, then vmap from the sample 10|20|30, then varchar again.
C9_Witness ==
  /\ Succeeded
  /\ last.col = "age"
  /\ last.dtype = s_varchar
  /\ Len(transf["age"]) = 3
  /\ transf["age"][1][3] = "text"
  /\ transf["age"][2] =
       <<[fn |-> "MAPDELIMITEDEXTRACTOR",
          params |-> << <<"delimiter", <<"|">> >> >>,
          cast |-> s_empty], s_vmap, "vmap">>
  /\ transf["age"][3] =
       <<[fn |-> "MAPTOSTRING",
          params |-> << <<"canonical_json", s_false>> >>,
          cast |-> s_varchar], s_varchar, "text">>

(***************************************************************************)
(* C10 as claimed: a cast to 'array' or 'vmap...' of a column whose        *)
(* current category is not text fails with ConversionError and appends     *)
(* nothing, whatever the engine answers.                                   *)
(***************************************************************************)
C10_OnlyTextBecomesVmapOrArray ==
  [][(/\ Called
      /\ last'.dtype = s_array \/ VmapLabel(last'.dtype)
      /\ CategoryBefore(last'.col) # "text")
     => /\ last'.raised = "ConversionError"
        /\ transf' = transf]_vars

(***************************************************************************)
(* C10 as amended: a cast to 'array' or 'vmap...' of a column whose        *)
(* current category is not text issues no version query and no             *)
(* longest-string probe; it is a plain cast to the requested label whose   *)
(* only round trip is the validation probe: when the engine accepts the    *)
(* probe the entry is appended, when it rejects it the call fails with     *)
(* ConversionError and appends nothing.                                    *)
(***************************************************************************)
C10_NonTextIsPlainCast ==
  [][(/\ Called
      /\ last'.dtype = s_array \/ VmapLabel(last'.dtype)
      /\ CategoryBefore(last'.col) # "text")
     => /\ last'.queries = <<"validate">>
        /\ IF last'.cause = "none"
           THEN /\ last'.raised = "none"
                /\ AppendedOne(last'.col)
                /\ EntryAfter(last'.col)[1] =
                     [fn |-> "", params |-> <<>>, cast |-> last'.dtype]
                /\ EntryAfter(last'.col)[2] = last'.dtype
           ELSE /\ last'.raised = "ConversionError"
                /\ last'.cause = "QueryError"
                /\ transf' = transf]_vars

\* price, an int column, cast to array: the engine accepted the probe of
\* the plain cast and the entry was appended.
C10_Witness ==
  /\ Succeeded
  /\ last.col = "price"
  /\ last.dtype = s_array
  /\ Len(transf["price"]) = 2
  /\ transf["price"][1][3] = "int"
  /\ transf["price"][2][1] = [fn |-> "", params |-> <<>>, cast |-> s_array]

(***************************************************************************)
(* Vocabulary of the claims about the inferred format parameters.          *)
(***************************************************************************)
\* The call fetched a longest string and built an extractor from it.
BuiltFrom(fn) ==
  last.op = "astype" /\ last.sample # None /\ last.built.fn = fn

\* Some delimiter candidate occurs in s.
SomeCandidateIn(s) ==
  \E i \in 1..Len(SepCandidates) : Count(s, SepCandidates[i]) > 0

\* ch is the first candidate, in priority order, whose count in s is
\* non-zero and maximal.
FirstMaximalIn(s, ch) ==
  \E i \in 1..Len(SepCandidates) :
     /\ SepCandidates[i] = ch
     /\ Count(s, ch) > 0
     /\ \A j \in 1..Len(SepCandidates) :
           /\ Count(s, SepCandidates[j]) <= Count(s, ch)
           /\ j < i => Count(s, SepCandidates[j]) < Count(s, ch)

\* The value of parameter name in a template ("absent" when not there).
ParamOf(tpl, name) ==
  IF \E i \in 1..Len(tpl.params) : tpl.params[i][1] = name
  THEN tpl.params[CHOOSE i \in 1..Len(tpl.params) : tpl.params[i][1] = name][2]
  ELSE <<"absent">>

\* The first and last characters of s are ( with ) or { with }.
BracketPair(s) ==
  /\ Len(s) >= 2
  /\ \/ s[1] = "(" /\ s[Len(s)] = ")"
     \/ s[1] = "{" /\ s[Len(s)] = "}"

(***************************************************************************)
(* C11: whenever a cast builds an array extractor or a delimited-map       *)
(* extractor from a sample in which some delimiter candidate occurs, the   *)
(* one delimiter parameter of the extractor (collection_delimiter, resp.   *)
(* delimiter) is the first candidate, in the fixed priority order , | ;    *)
(* whose count in the sample is non-zero and maximal.                      *)
(***************************************************************************)
C11_SeparatorIsFirstMaximal ==
  /\ BuiltFrom("STRING_TO_ARRAY") =>
       /\ last.built.params[1][1] = "collection_delimiter"
       /\ Len(last.built.params[1][2]) = 1
       /\ ParamOf(last.built, "delimiter") = <<"absent">>
       /\ SomeCandidateIn(last.sample) =>
            FirstMaximalIn(last.sample, last.built.params[1][2][1])
  /\ BuiltFrom("MAPDELIMITEDEXTRACTOR") =>
       /\ last.built.params[1][1] = "delimiter"
       /\ Len(last.built.params[1][2]) = 1
       /\ ParamOf(last.built, "collection_delimiter") = <<"absent">>
       /\ SomeCandidateIn(last.sample) =>
            FirstMaximalIn(last.sample, last.built.params[1][2][1])

\* The sample 1,2;3,4 made an array with the delimiter , (two commas, one
\* semicolon).
C11_Witness ==
  /\ Succeeded
  /\ last.sample = smp_mixed
  /\ LastEntry[1].fn = "STRING_TO_ARRAY"
  /\ ParamOf(LastEntry[1], "collection_delimiter") = <<",">>

(***************************************************************************)
(* C12 as claimed: the array extractor carries collection_open and         *)
(* collection_close, equal to the first and last characters of the sample, *)
(* exactly when these are ( with ) or { with }, whatever the length of the *)
(* sample.                                                                 *)
(***************************************************************************)
C12_BracketsAnyLength ==
  BuiltFrom("STRING_TO_ARRAY") =>
    IF BracketPair(last.sample)
    THEN /\ ParamOf(last.built, "collection_open") = <<last.sample[1]>>
         /\ ParamOf(last.built, "collection_close") =
              <<last.sample[Len(last.sample)]>>
    ELSE /\ ParamOf(last.built, "collection_open") = <<"absent">>
         /\ ParamOf(last.built, "collection_close") = <<"absent">>

(***************************************************************************)
(* C12 as amended: the array extractor carries collection_open and         *)
(* collection_close, equal to the first and last characters of the         *)
(* (stripped) sample, exactly when the sample has more than two characters *)
(* and these are ( with ) or { with }; otherwise it carries neither.       *)
(***************************************************************************)
C12_BracketsLongerThanTwo ==
  BuiltFrom("STRING_TO_ARRAY") =>
    IF BracketPair(last.sample) /\ Len(last.sample) > 2
    THEN /\ ParamOf(last.built, "collection_open") = <<last.sample[1]>>
         /\ ParamOf(last.built, "collection_close") =
              <<last.sample[Len(last.sample)]>>
    ELSE /\ ParamOf(last.built, "collection_open") = <<"absent">>
         /\ ParamOf(last.built, "collection_close") = <<"absent">>

\* The padded sample " (1,,2) " made an array with ( and ) as brackets.
C12_Witness ==
  /\ Succeeded
  /\ last.sample = <<"(", "1", ",", ",", "2", ")">>
  /\ LastEntry[1].fn = "STRING_TO_ARRAY"
  /\ ParamOf(LastEntry[1], "collection_open") = <<"(">>
  /\ ParamOf(LastEntry[1], "collection_close") = <<")">>

(***************************************************************************)
(* C15 as claimed: for a vmap target on a text column, a sample that       *)
(* starts with { and ends with } gives MAPJSONEXTRACTOR with no delimiter  *)
(* and no header names; any other sample gives MAPDELIMITEDEXTRACTOR with  *)
(* the inferred separator and, for vmap(a,b), header_names='a,b'; a        *)
(* successful cast declares the type 'vmap'.                               *)
(***************************************************************************)
C15_VmapExtractorAnyLength ==
  (last.op = "astype" /\ VmapLabel(last.dtype) /\ last.sample # None) =>
    /\ last.built =
         IF /\ Len(last.sample) >= 2
            /\ last.sample[1] = "{"
            /\ last.sample[Len(last.sample)] = "}"
         THEN [fn |-> "MAPJSONEXTRACTOR",
               params |-> << <<"flatten_maps", s_false>> >>,
               cast |-> s_empty]
         ELSE [fn |-> "MAPDELIMITEDEXTRACTOR",
               params |-> << <<"delimiter", <<guess_sep(last.sample)>> >> >>
                  \o (IF last.dtype = s_vmap_hdr
                      THEN << <<"header_names", <<"a", ",", "b">> >> >>
                      ELSE <<>>),
               cast |-> s_empty]
    /\ Succeeded => LastEntry[2] = s_vmap

(***************************************************************************)
(* C15 as amended: as claimed, with the JSON extractor chosen when the     *)
(* sample starts with {, ends with } and has more than two characters.     *)
(***************************************************************************)
C15_VmapExtractorLongerThanTwo ==
  (last.op = "astype" /\ VmapLabel(last.dtype) /\ last.sample # None) =>
    /\ last.built =
         IF /\ Len(last.sample) > 2
            /\ last.sample[1] = "{"
            /\ last.sample[Len(last.sample)] = "}"
         THEN [fn |-> "MAPJSONEXTRACTOR",
               params |-> << <<"flatten_maps", s_false>> >>,
               cast |-> s_empty]
         ELSE [fn |-> "MAPDELIMITEDEXTRACTOR",
               params |-> << <<"delimiter", <<guess_sep(last.sample)>> >> >>
                  \o (IF last.dtype = s_vmap_hdr
                      THEN << <<"header_names", <<"a", ",", "b">> >> >>
                      ELSE <<>>),
               cast |-> s_empty]
    /\ Succeeded => LastEntry[1] = last.built /\ LastEntry[2] = s_vmap

\* vmap(a,b) on the JSON sample {a:1}: the JSON extractor, no header names.
C15_Witness ==
  /\ Succeeded
  /\ last.dtype = s_vmap_hdr
  /\ last.sample = smp_json
  /\ LastEntry[1].fn = "MAPJSONEXTRACTOR"
  /\ ParamOf(LastEntry[1], "header_names") = <<"absent">>
  /\ LastEntry[2] = s_vmap

(***************************************************************************)
(* C13: calling isnum, isbool, isdate, isvmap or isarray on a column of    *)
(* any category issues no query to the engine.                             *)
(***************************************************************************)
C13_PredicatesIssueNoQuery ==
  last.op \in {"isnum", "isbool", "isdate", "isvmap", "isarray"}
    => last.queries = <<>>

(***************************************************************************)
(* C14: category() and ctype() never change a chain; category() returns    *)
(* the category of the last entry and ctype() its declared type in lower   *)
(* case; the same read made twice in a row on a column returns the same    *)
(* value.                                                                  *)
(***************************************************************************)
C14_ReadsAreIdempotent ==
  [][/\ last'.op \in {"category", "ctype"} => transf' = transf
     /\ last'.op = "category" =>
          last'.result = <<transf[last'.col][Len(transf[last'.col])][3]>>
     /\ last'.op = "ctype" =>
          last'.result = lower(transf[last'.col][Len(transf[last'.col])][2])
     /\ (/\ last.op \in {"category", "ctype"}
         /\ last'.op = last.op
         /\ last'.col = last.col) => last'.result = last.result]_vars

\* ctype() of a column whose stored type is Boolean returned boolean.
C14_Witness ==
  /\ last.op = "ctype"
  /\ transf[last.col][Len(transf[last.col])][2] = s_Boolean
  /\ last.result = s_boolean

(***************************************************************************)
(* C16: a cast call changes a chain only by appending one entry, and only  *)
(* when the validation probe was the last round trip of that call, was     *)
(* issued for the very expression appended, and was answered without       *)
(* error.                                                                  *)
(***************************************************************************)
C16_AppendOnlyAfterValidation ==
  [][(Called /\ transf' # transf) =>
       /\ Len(last'.queries) >= 1
       /\ last'.queries[Len(last'.queries)] = "validate"
       /\ last'.cause = "none"
       /\ last'.raised = "none"
       /\ AppendedOne(last'.col)
       /\ EntryAfter(last'.col)[1] = last'.probed
       /\ \A c \in Columns \ {last'.col} : transf'[c] = transf[c]]_vars

\* A vmap cast: the longest-string probe, then the validation probe of the
\* extractor that was appended.
C16_Witness ==
  /\ Succeeded
  /\ last.queries = <<"biggest_str", "validate">>
  /\ LastEntry[1].fn = "MAPDELIMITEDEXTRACTOR"
  /\ LastEntry[1] = last.probed

(***************************************************************************)
(* Vocabulary of the claims about the table-level operations.              *)
(***************************************************************************)
\* The declared type of the last entry of column c is boolean, before and
\* after the step.
BooleanBefore(c) ==
  LET d == lower(transf[c][Len(transf[c])][2])
  IN Len(d) >= 4 /\ SubSeq(d, 1, 4) = s_bool

BooleanAfter(c) ==
  LET d == lower(transf'[c][Len(transf'[c])][2])
  IN Len(d) >= 4 /\ SubSeq(d, 1, 4) = s_bool

(***************************************************************************)
(* C17: the table-level astype casts the columns in the order of the       *)
(* dictionary and stops at the first cast that raises: the call raises for *)
(* that column, every column before it in the dictionary has exactly one   *)
(* new entry, that column and every column after it are unchanged; when no *)
(* cast raises every column of the dictionary has exactly one new entry.   *)
(***************************************************************************)
C17_StopsAtFirstFailure ==
  [][(last = Idle /\ last'.op = "df_astype") =>
       LET keys == last'.keys
       IN /\ \A c \in Columns :
               (\A i \in 1..Len(keys) : keys[i] # c) => transf'[c] = transf[c]
          /\ last'.raised = "none" =>
               \A i \in 1..Len(keys) : AppendedOne(keys[i])
          /\ last'.raised # "none" =>
               /\ last'.raised = "ConversionError"
               /\ \E i \in 1..Len(keys) :
                    /\ keys[i] = last'.col
                    /\ \A j \in 1..Len(keys) :
                          IF j < i THEN AppendedOne(keys[j])
                          ELSE transf'[keys[j]] = transf[keys[j]]]_vars

\* {price: ..., age: ...}: price was cast, then the cast of age raised, and
\* price keeps its new entry.
C17_Witness ==
  /\ last.op = "df_astype"
  /\ last.keys = <<"price", "age">>
  /\ last.raised = "ConversionError"
  /\ last.col = "age"
  /\ Len(transf["price"]) = 2
  /\ Len(transf["age"]) = 1

(***************************************************************************)
(* C18: after a bool_to_int in which no cast raised, every column whose    *)
(* declared type was boolean before the call has exactly one new entry,    *)
(* with declared type 'int', and is no longer boolean, and the chain of    *)
(* every other column is unchanged.                                        *)
(***************************************************************************)
C18_BooleansBecomeInt ==
  [][(last = Idle /\ last'.op = "bool_to_int" /\ last'.raised = "none") =>
       \A c \in Columns :
          IF BooleanBefore(c)
          THEN /\ AppendedOne(c)
               /\ EntryAfter(c)[2] = s_int
               /\ ~BooleanAfter(c)
          ELSE transf'[c] = transf[c]]_vars

\* price, stored as Boolean, is now int; age is as it was.
C18_Witness ==
  /\ last.op = "bool_to_int"
  /\ last.raised = "none"
  /\ Len(transf["price"]) = 2
  /\ transf["price"][1][2] = s_Boolean
  /\ transf["price"][2] =
       <<[fn |-> "", params |-> <<>>, cast |-> s_int], s_int, "int">>
  /\ Len(transf["age"]) = 1

(***************************************************************************)
(* Vocabulary of the claim about read_dsn, read from the section given.    *)
(***************************************************************************)
\* The positions of the options whose name starts with env.
EnvPositions ==
  {i \in 1..Len(dsn.options) :
     /\ Len(dsn.options[i][1]) >= 3
     /\ SubSeq(dsn.options[i][1], 1, 3) = <<"e", "n", "v">>}

\* The flag as the first of them sets it.
FlagOfFirst ==
  /\ EnvPositions # {}
  /\ \E i \in EnvPositions :
        /\ \A j \in EnvPositions : i <= j
        /\ lower(dsn.options[i][2]) \in
             {<<"t", "r", "u", "e">>, <<"t">>, <<"y", "e", "s">>, <<"y">>}

\* The position of the option that decides the flag.
FlagPosition == {i \in EnvPositions : \A j \in EnvPositions : i <= j}

\* The positions of the credential options, and of all the others.
CredentialPositions ==
  {i \in 1..Len(dsn.options) :
     dsn.options[i][1] \in {n_pwd, n_password, n_uid, n_user}}

NonCredentialPositions == (1..Len(dsn.options)) \ CredentialPositions

\* The options whose value the dictionary never gets: the flag options and
\* session_label.
IgnoredPositions ==
  {i \in NonCredentialPositions :
     i \in EnvPositions \/ dsn.options[i][1] = n_session_label}

\* A credential names a variable the environment does not have.
MissingVariable ==
  \E i \in CredentialPositions : dsn.options[i][2] \notin DOMAIN dsn.environ

\* The key of the dictionary the option at position i is stored under.
KeyOf(i) ==
  LET name == dsn.options[i][1]
  IN CASE name \in {n_pwd, n_password} -> n_password
       [] name \in {n_uid, n_user} -> n_user
       [] name \in {n_servername, n_server} -> n_host
       [] name = n_kerberosservicename -> n_kerberos_service_name
       [] name = n_kerberoshostname -> n_kerberos_host_name
       [] name = n_vp_test_host -> n_host
       [] OTHER -> name

\* No later option is stored under the key of option i.
LastForKey(i) ==
  \A j \in ((i + 1)..Len(dsn.options)) \ IgnoredPositions :
     KeyOf(j) # KeyOf(i)

\* The text of option i in any form: a string, an integer or a boolean.
OwnText(i) ==
  LET val == dsn.options[i][2]
  IN {Str(val), BoolV(lower(val) \in Truthy)}
       \cup (IF isnumeric(val) THEN {IntV(int(val))} ELSE {})

\* The text of option i in the form its name asks for: an integer for a
\* numeric port or connection_timeout, a boolean for the boolean options, the
\* string itself otherwise.
TextValue(i) ==
  LET name == dsn.options[i][1]
      val == dsn.options[i][2]
  IN IF name \in {n_port, n_connection_timeout} /\ isnumeric(val)
     THEN IntV(int(val))
     ELSE IF name \in {n_ssl, n_autocommit, n_use_prepared_statements,
                       n_connection_load_balance, n_disable_copy_local}
     THEN BoolV(lower(val) \in Truthy)
     ELSE Str(val)

\* What the claim says of the flag and of the credential options.
CredentialsFollowFlag ==
  IF FlagOfFirst /\ MissingVariable
  THEN /\ dsn.raised = "ParameterError"
       /\ ~dsn.returned
       /\ dsn.conn_info = {}
  ELSE /\ dsn.raised = "none"
       /\ dsn.returned
       /\ \A i \in CredentialPositions :
             LastForKey(i) =>
               <<KeyOf(i),
                 Str(IF FlagOfFirst THEN dsn.environ[dsn.options[i][2]]
                     ELSE dsn.options[i][2])>> \in dsn.conn_info

(***************************************************************************)
(* C19 as stated: in read_dsn the first option whose name starts with env  *)
(* decides the flag; with the flag true pwd, password, uid and user are    *)
(* set to the value of the environment variable they name, a missing       *)
(* variable raising ParameterError with no dictionary returned; with the   *)
(* flag false or absent they are set to their text; and the value of every *)
(* other option but the one that decides the flag, whatever its name, is   *)
(* in the dictionary returned, in some form of its own text.               *)
(***************************************************************************)
C19_EveryOtherOptionLiteral ==
  (dsn.phase = "done" /\ dsn.present) =>
    /\ CredentialsFollowFlag
    /\ dsn.returned =>
         \A i \in NonCredentialPositions \ FlagPosition :
            (\A j \in (i + 1)..Len(dsn.options) : KeyOf(j) # KeyOf(i)) =>
               \E p \in dsn.conn_info : p[2] \in OwnText(i)

(***************************************************************************)
(* C19 amended: the flag and the credentials are as stated.  Of the other  *)
(* options, those whose name starts with env and session_label store       *)
(* nothing: the dictionary has no key of an env option and keeps the       *)
(* session label of the library.  Every remaining option is stored from    *)
(* its own text and never from the environment, under its own name or the  *)
(* name the library gives it (servername and server as host, the kerberos  *)
(* names with underscores, a vp_test_ name without the prefix), as an      *)
(* integer for a numeric port or connection_timeout, as a boolean for the  *)
(* boolean options and as the string otherwise; none of them raises.       *)
(***************************************************************************)
C19_OtherOptionsStoredOrIgnored ==
  (dsn.phase = "done" /\ dsn.present) =>
    /\ CredentialsFollowFlag
    /\ dsn.returned =>
         /\ \A i \in NonCredentialPositions \ IgnoredPositions :
               LastForKey(i) => <<KeyOf(i), TextValue(i)>> \in dsn.conn_info
         /\ \A i \in IgnoredPositions :
               \A p \in dsn.conn_info :
                  p[1] = dsn.options[i][1] =>
                     /\ p[1] = n_session_label
                     /\ p[2] = Str(SESSION_LABEL)
         /\ <<n_session_label, Str(SESSION_LABEL)>> \in dsn.conn_info

\* pwd = PW, session_label = PW, env = True with PW set in the environment:
\* the flag stands last, the password is the variable's value, and the label
\* written in the section is not taken.
C19_Witness ==
  /\ dsn.phase = "done"
  /\ dsn.options =
       << <<n_pwd, v_PW>>, <<n_session_label, v_PW>>, <<n_env, v_True>> >>
  /\ v_PW \in DOMAIN dsn.environ
  /\ dsn.returned
  /\ <<n_password, Str(v_s3)>> \in dsn.conn_info
  /\ <<n_session_label, Str(SESSION_LABEL)>> \in dsn.conn_info
  /\ <<n_session_label, Str(v_PW)>> \notin dsn.conn_info

=============================================================================
